---- MODULE Spec2Model ----
(***************************************************************************)
(* Model of the Waybar layout/state reconciliation engine of HyDE           *)
(* (Configs/.local/lib/hyde/waybar.py).                                     *)
(*                                                                         *)
(* A path is a sequence of tokens: a directory token ("L0".."L3" for       *)
(* LAYOUT_DIRS, "S0".."S1" for STYLE_DIRS), then the characters of the      *)
(* path below it.  The extension ".jsonc"/".css", the backup suffix         *)
(* "_config" and a timestamp are one token each.  Ord gives each token      *)
(* the rank Python's string comparison gives its first character, so       *)
(* sorted() is computed, not assumed.                                       *)
(***************************************************************************)
EXTENDS Integers, Sequences, FiniteSets, TLC

\* ------------------------------------------------------------------ bounds
\* Number of distinct one-second timestamp granules the clock can show.
MaxClock == 2
\* Longest recorded run of completed invocations (SpecNav only).
MaxTrail == 4
\* Most style files listed in one style directory (SpecStyle only).
MaxListing == 2
\* Longest state file (in lines) set_state_value is applied to (SpecStore only).
MaxLines == 3

\* ------------------------------------------------------------ basic values
None == <<>>
NoFile == "ENOENT"
EMPTY_JSON == "{}"

KEY_PATH == "WAYBAR_LAYOUT_PATH"
KEY_NAME == "WAYBAR_LAYOUT_NAME"
KEY_STYLE == "WAYBAR_STYLE_PATH"
Keys == {KEY_PATH, KEY_NAME, KEY_STYLE}

LAYOUT_DIRS == <<"L0", "L1", "L2", "L3">>
STYLE_DIRS == <<"S0", "S1">>

\* strftime("%Y%m%d_%H%M%S") of clock value t (one token per second).
Stamps == <<"T1", "T2", "T3", "T4", "T5", "T6">>
timestamp(t) == Stamps[t]

\* Rank of a token under Python's str comparison (100 * code point of its
\* first character; timestamps all start with the same digit and differ
\* later, directories compare as whole strings).
Ord(c) ==
    CASE c = "L0" -> 1 [] c = "L1" -> 2 [] c = "L2" -> 3 [] c = "L3" -> 4
      [] c = "S0" -> 5 [] c = "S1" -> 6
      [] c = "#" -> 3500 [] c = ".jsonc" -> 4600 [] c = ".css" -> 4601
      [] c = "/" -> 4700
      [] c = "T1" -> 5001 [] c = "T2" -> 5002 [] c = "T3" -> 5003
      [] c = "T4" -> 5004 [] c = "T5" -> 5005 [] c = "T6" -> 5006
      [] c = "_config" -> 9500
      [] c = "a" -> 9700 [] c = "b" -> 9800 [] c = "c" -> 9900
      [] c = "d" -> 10000 [] c = "e" -> 10100 [] c = "f" -> 10200
      [] c = "k" -> 10700 [] c = "l" -> 10800 [] c = "o" -> 11100
      [] c = "p" -> 11200 [] c = "s" -> 11500 [] c = "t" -> 11600
      [] c = "u" -> 11700 [] c = "y" -> 12100 [] c = "z" -> 12200

\* Python's "<" on two strings, token by token.
RECURSIVE PathLess(_, _)
PathLess(p, q) ==
    IF p = <<>> THEN q # <<>>
    ELSE IF q = <<>> THEN FALSE
    ELSE IF Ord(Head(p)) # Ord(Head(q)) THEN Ord(Head(p)) < Ord(Head(q))
    ELSE PathLess(Tail(p), Tail(q))

\* sorted(list of paths)
RECURSIVE sorted(_)
sorted(S) ==
    IF S = {} THEN <<>>
    ELSE LET m == CHOOSE x \in S : \A y \in S \ {x} : PathLess(x, y)
         IN  <<m>> \o sorted(S \ {m})

\* s.startswith(prefix)
startswith(s, prefix) ==
    /\ Len(prefix) <= Len(s)
    /\ SubSeq(s, 1, Len(prefix)) = prefix

\* Index of the last "/" of a path (0 when there is none).
LastSlash(p) ==
    LET I == {i \in 1..Len(p) : p[i] = "/"}
    IN  IF I = {} THEN 0 ELSE CHOOSE i \in I : \A j \in I : j <= i

\* The last component of a layout or style directory's own path.
DirLeaf(d) ==
    IF d \in {"S0", "S1"} THEN <<"s", "t", "y", "l", "e", "s">>
    ELSE <<"l", "a", "y", "o", "u", "t", "s">>

\* os.path.basename / os.path.dirname
basename(p) ==
    IF LastSlash(p) = 0 THEN DirLeaf(p[1])
    ELSE SubSeq(p, LastSlash(p) + 1, Len(p))
dirname(p) == SubSeq(p, 1, LastSlash(p) - 1)

\* s.replace(".jsonc", "")
strip_jsonc(s) == SelectSeq(s, LAMBDA x : x # ".jsonc")

\* os.path.basename(layout).replace(".jsonc", "")
layout_basename(p) == strip_jsonc(basename(p))

\* name.split("#")[0]
before_hash(s) ==
    LET I == {i \in 1..Len(s) : s[i] = "#"}
    IN  IF I = {} THEN s
        ELSE SubSeq(s, 1, (CHOOSE i \in I : \A j \in I : i <= j) - 1)

\* get_file_hash: SHA-256 of the content, taken as collision free.
get_file_hash(content) == <<"sha256", content>>

\* ------------------------------------------------------------------- state
VARIABLES
    tree,       \* the *.jsonc files under LAYOUT_DIRS (backups live in L0/backup): path -> content
    config,     \* content of CONFIG_JSONC, or NoFile
    stateFile,  \* STATE_FILE: [exists, lines], a line is <<key, value>>
    styleDirs,  \* per STYLE_DIRS entry, the *.css base names in glob order
    styleCss,   \* the style path imported by waybar/style.css, or None
    clock,      \* the current second, 1..MaxClock
    pc,         \* "idle", "reconciled" (after line 738), "watching" or "done"
    argv,       \* the command line of the running invocation
    exitCode,   \* exit status of the invocation at "done"
    pre,        \* the files as they were when the invocation started
    made,       \* number of backup copies written by the running invocation
    switched,   \* the layout set_layout or the picker applied in this invocation, or None
    quiet,      \* the last invocation was a plain run and nothing was edited since
    track,      \* whether trail/origin are recorded (SpecNav)
    origin,     \* the files when the recorded run of invocations started
    trail,      \* the invocations completed with status 0 since origin
    env,        \* what the routines read and never write: module files, templates, environment, tools
    art,        \* the derived artifacts: includes.json, border-radius.css, global.css
    log,        \* the steps the running invocation's command has taken, in order
    bar,        \* whether a bar process is running
    gui,        \* the setup GUI's AI page: [phase, store, before, result, preview]
    procs       \* invocations switching at the same time: [run, overlapped]

vars == <<tree, config, stateFile, styleDirs, styleCss, clock, pc, argv,
          exitCode, pre, made, switched, quiet, track, origin, trail,
          env, art, log, bar, gui, procs>>

\* The files one invocation reads and writes, threaded through the operators.
Files == [tree |-> tree, config |-> config, state |-> stateFile,
          css |-> styleCss, made |-> made, switched |-> switched,
          art |-> art, log |-> log]

\* ------------------------------------------------------------- state store
\* Index of the first line of the state file that starts with "key=" (0: none).
FirstLine(lines, key) ==
    LET I == {i \in 1..Len(lines) : lines[i][1] = key}
    IN  IF I = {} THEN 0 ELSE CHOOSE i \in I : \A j \in I : i <= j

get_state_value(f, key) ==
    IF ~f.state.exists THEN None
    ELSE IF FirstLine(f.state.lines, key) = 0 THEN None
    ELSE f.state.lines[FirstLine(f.state.lines, key)][2]

\* A line is <<key, value>>; the last line of a file that does not end in a
\* newline is <<key, value, "open">>.  The lines of the file after
\* "key=value\n" lines are written at its end: the first one continues an
\* open last line.
append_text(lines, new) ==
    IF new = <<>> \/ lines = <<>> \/ Len(lines[Len(lines)]) = 2 THEN lines \o new
    ELSE SubSeq(lines, 1, Len(lines) - 1)
         \o <<(<<lines[Len(lines)][1],
                 lines[Len(lines)][2] \o <<new[1][1], "=">> \o new[1][2]>>)>>
         \o Tail(new)

set_state_value(f, key, value) ==
    IF ~f.state.exists
    THEN [f EXCEPT !.state = [exists |-> TRUE, lines |-> <<(<<key, value>>)>>]]
    ELSE LET lines == f.state.lines
             rewritten == [i \in 1..Len(lines) |->
                              IF lines[i][1] = key THEN <<key, value>> ELSE lines[i]]
         IN  IF FirstLine(lines, key) # 0
             THEN [f EXCEPT !.state.lines = rewritten]
             ELSE [f EXCEPT !.state.lines =
                      append_text(rewritten, <<(<<key, value>>)>>)]

\* ----------------------------------------------------------------- catalog
\* A file that exists outside the catalogue: it lies in the user layout
\* directory but does not end in ".jsonc", so os.walk finds it and
\* find_layout_files skips it.
POther == <<"L0", "/", "o", ".json">>
OtherFiles == {POther}
OtherContent(p) == "O"

\* The files os.walk yields under the layout directories; a directory that
\* does not exist yields none.
walk(f) == DOMAIN f.tree \cup OtherFiles

\* file.endswith(".jsonc")
is_layout_file(p) == p[Len(p)] = ".jsonc"

\* A catalogue of the files that lie directly in a layout directory.
find_layout_files_flat(f) ==
    sorted({p \in walk(f) : is_layout_file(p) /\ LastSlash(p) = 2})

find_layout_files(f) == sorted({p \in walk(f) : is_layout_file(p)})

\* os.path.exists(layout_path)
path_exists(f, p) == p \in DOMAIN f.tree \/ p \in OtherFiles

\* The bytes open(p, "rb") reads.
read_file(f, p) == IF p \in DOMAIN f.tree THEN f.tree[p] ELSE OtherContent(p)

\* CONFIG_JSONC.parent / "layouts" / "backup" / f"{timestamp}_config.jsonc"
backup_path(t) ==
    <<"L0", "/", "b", "a", "c", "k", "u", "p", "/", timestamp(t), "_config", ".jsonc">>

\* shutil.copyfile(CONFIG_JSONC, backup_path)
copy_config_to_backup(f) ==
    [f EXCEPT !.tree = (backup_path(clock) :> f.config) @@ f.tree,
              !.made = @ + 1]

\* shutil.copyfile(layout, CONFIG_JSONC)
copy_layout_to_config(f, layout) == [f EXCEPT !.config = read_file(f, layout)]

\* First index of a sequence whose element satisfies Test (0: none).
FirstIndex(seq, Test(_)) ==
    LET I == {i \in 1..Len(seq) : Test(seq[i])}
    IN  IF I = {} THEN 0 ELSE CHOOSE i \in I : \A j \in I : i <= j

\* ---------------------------------------------------------- style resolver
StylePath(d, base) == <<STYLE_DIRS[d], "/">> \o base \o <<".css">>
DEFAULTS == <<"d", "e", "f", "a", "u", "l", "t", "s">>

\* glob.glob(os.path.join(style_dir, f"{prefix}*.css"))
glob_styles(d, prefix) ==
    LET hits == SelectSeq(styleDirs[d], LAMBDA b : startswith(b, prefix))
    IN  [i \in 1..Len(hits) |-> StylePath(d, hits[i])]

style_exists(p) ==
    \E d \in 1..Len(STYLE_DIRS) : \E i \in 1..Len(styleDirs[d]) :
        p = StylePath(d, styleDirs[d][i])

\* The match of one style directory, by the three heuristics in order.
style_in_dir(d, name, dir_name) ==
    IF glob_styles(d, name) # <<>> THEN glob_styles(d, name)[1]
    ELSE IF glob_styles(d, before_hash(name)) # <<>>
         THEN glob_styles(d, before_hash(name))[1]
    ELSE IF dir_name # <<>> /\ glob_styles(d, dir_name) # <<>>
         THEN glob_styles(d, dir_name)[1]
    ELSE None

\* The prefix the h-th heuristic globs for.
heuristic_prefix(h, name, dir_name) ==
    CASE h = 1 -> name [] h = 2 -> before_hash(name) [] h = 3 -> dir_name

\* A resolver that tries each heuristic in every directory before the next
\* heuristic.
resolve_style_heuristic_first(layout_path) ==
    LET name == layout_basename(layout_path)
        dir_name == basename(dirname(layout_path))
        D == 1..Len(STYLE_DIRS)
        hits == {x \in (1..3) \X D :
                    glob_styles(x[2], heuristic_prefix(x[1], name, dir_name)) # <<>>}
        best == CHOOSE x \in hits :
                    \A y \in hits : x[1] < y[1] \/ (x[1] = y[1] /\ x[2] <= y[2])
        dflt == {d \in D : style_exists(StylePath(d, DEFAULTS))}
    IN  IF hits # {}
        THEN glob_styles(best[2], heuristic_prefix(best[1], name, dir_name))[1]
        ELSE IF dflt # {}
        THEN StylePath(CHOOSE d \in dflt : \A e \in dflt : d <= e, DEFAULTS)
        ELSE StylePath(1, DEFAULTS)

\* A resolver whose fallback never looks past the first style directory.
resolve_style_first_directory(layout_path) ==
    LET name == layout_basename(layout_path)
        dir_name == basename(dirname(layout_path))
        D == 1..Len(STYLE_DIRS)
        hit == {d \in D : style_in_dir(d, name, dir_name) # None}
    IN  IF hit # {}
        THEN style_in_dir(CHOOSE d \in hit : \A e \in hit : d <= e, name, dir_name)
        ELSE StylePath(1, DEFAULTS)

resolve_style_path(layout_path) ==
    LET name == layout_basename(layout_path)
        dir_name == basename(dirname(layout_path))
        D == 1..Len(STYLE_DIRS)
        hit == {d \in D : style_in_dir(d, name, dir_name) # None}
        dflt == {d \in D : style_exists(StylePath(d, DEFAULTS))}
    IN  IF hit # {}
        THEN style_in_dir(CHOOSE d \in hit : \A e \in hit : d <= e, name, dir_name)
        ELSE IF dflt # {}
        THEN StylePath(CHOOSE d \in dflt : \A e \in dflt : d <= e, DEFAULTS)
        ELSE StylePath(1, DEFAULTS)

\* --------------------------------------------------- reconciliation engine
\* Every operator that changes files returns the files afterwards; the ones
\* that also return a layout return [fs, ret].

\* The first catalogued layout whose base name is layout_name (0: none).
layout_by_name(layouts, layout_name) ==
    FirstIndex(layouts, LAMBDA l : layout_basename(l) = layout_name)

\* Lines 154-158: a missing config.jsonc is created holding json.dump({}).
create_missing_config(f) ==
    IF f.config = NoFile THEN [f EXCEPT !.config = EMPTY_JSON] ELSE f

\* Lines 168-170 and 188-190: record the layout's path and base name.
record_layout(f, layout) ==
    set_state_value(set_state_value(f, KEY_PATH, layout),
                    KEY_NAME, layout_basename(layout))

\* Lines 174-196: nothing matched by hash; back the config up and take the
\* first layout of the catalogue as read before the backup was written.
use_first_layout(f, layouts) ==
    IF layouts = <<>> THEN [fs |-> f, ret |-> None]
    ELSE [fs |-> copy_layout_to_config(
                    record_layout(copy_config_to_backup(f), layouts[1]),
                    layouts[1]),
          ret |-> layouts[1]]

\* A hash comparison that takes the first layout without comparing.
find_by_hash_first(layouts, t, config_hash) ==
    IF layouts = <<>> THEN 0 ELSE 1

\* Lines 164-165: the first catalogued layout whose hash is config_hash
\* (0: none).
find_by_hash(layouts, t, config_hash) ==
    FirstIndex(layouts, LAMBDA l : get_file_hash(t[l]) = config_hash)

\* Lines 164-196, given the index found by hash.
detect_layout(f, layouts, byHash) ==
    IF byHash # 0
    THEN [fs |-> record_layout(f, layouts[byHash]), ret |-> layouts[byHash]]
    ELSE use_first_layout(f, layouts)

\* Lines 160-196.
compare_hashes(f, layouts) ==
    detect_layout(f, layouts,
                  find_by_hash(layouts, f.tree, get_file_hash(f.config)))

\* Lines 151-196 of get_current_layout_from_config: the hash comparison and
\* the first-layout default.
hash_fallback(f) ==
    compare_hashes(create_missing_config(f), find_layout_files(f))

\* Lines 136-196, given what lines 137, 143 and 145 read.
current_layout_of(f, layout_path, layout_name, layouts) ==
    IF layout_path # None /\ path_exists(f, layout_path)
    THEN [fs |-> f, ret |-> layout_path]
    ELSE IF layout_name # None /\ layout_by_name(layouts, layout_name) # 0
    THEN [fs |-> f, ret |-> layouts[layout_by_name(layouts, layout_name)]]
    ELSE hash_fallback(f)

\* A lookup that stops when neither the recorded path nor the recorded name
\* resolves, instead of falling back to the hash comparison.
get_current_layout_no_fallback(f) ==
    IF get_state_value(f, KEY_PATH) # None
       /\ ~path_exists(f, get_state_value(f, KEY_PATH))
       /\ layout_by_name(find_layout_files(f), get_state_value(f, KEY_NAME)) = 0
    THEN [fs |-> f, ret |-> None]
    ELSE current_layout_of(f, get_state_value(f, KEY_PATH),
                           get_state_value(f, KEY_NAME), find_layout_files(f))

get_current_layout_from_config(f) ==
    current_layout_of(f, get_state_value(f, KEY_PATH),
                      get_state_value(f, KEY_NAME), find_layout_files(f))

has_key(lines, key) == \E i \in 1..Len(lines) : lines[i][1] = key

\* The three lines ensure_state_file writes for a layout, less those that
\* `lines` already holds.
missing_lines(lines, current_layout) ==
    (IF has_key(lines, KEY_PATH) THEN <<>>
     ELSE <<(<<KEY_PATH, current_layout>>)>>)
    \o (IF has_key(lines, KEY_NAME) THEN <<>>
        ELSE <<(<<KEY_NAME, layout_basename(current_layout)>>)>>)
    \o (IF has_key(lines, KEY_STYLE) THEN <<>>
        ELSE <<(<<KEY_STYLE, resolve_style_path(current_layout)>>)>>)

\* ensure_state_file, lines 216-224 and 240-253: `old` is the state file as
\* read at the start, r the result of get_current_layout_from_config.
write_entries(old, r) ==
    IF ~old.exists
    THEN [r.fs EXCEPT !.state =
            [exists |-> TRUE,
             lines |-> IF r.ret # None THEN missing_lines(<<>>, r.ret) ELSE <<>>]]
    ELSE IF r.ret = None THEN r.fs
    ELSE [r.fs EXCEPT !.state.lines =
             append_text(@, missing_lines(old.lines, r.ret))]

ensure_state_file(f) ==
    IF f.state.exists /\ has_key(f.state.lines, KEY_PATH) THEN f
    ELSE write_entries(f.state, get_current_layout_from_config(f))

\* main, lines 588-603 and 627-643: back the config up if its hash differs
\* from the layout's.
\* main, lines 599-603 and 640-646: the copy to the backup is made inside
\* try/except Exception; when it cannot be written the error is logged and
\* main goes on.
try_backup(f) ==
    IF env.backupDir = "ok" THEN copy_config_to_backup(f) ELSE f

backup_if_modified(f, layout) ==
    IF get_file_hash(f.config) # get_file_hash(read_file(f, layout))
    THEN try_backup(f) ELSE f

\* main, lines 583-610.
restore_recorded_layout(f, layout_path) ==
    copy_layout_to_config(backup_if_modified(f, layout_path), layout_path)

\* main, lines 619-654.
restore_layout_by_name(f, layout) ==
    copy_layout_to_config(
        set_state_value(backup_if_modified(f, layout), KEY_PATH, layout),
        layout)

\* main, lines 580-656, given what lines 580, 615 and 618 read.
reconcile_recorded(f, layout_path, layout_name, layouts) ==
    IF layout_path = None \/ f.config = NoFile THEN f
    ELSE IF path_exists(f, layout_path)
    THEN restore_recorded_layout(f, layout_path)
    ELSE IF layout_name # None /\ layout_by_name(layouts, layout_name) # 0
    THEN restore_layout_by_name(f, layouts[layout_by_name(layouts, layout_name)])
    ELSE f

\* main, lines 577-659.
reconcile_config(f) ==
    IF ~f.state.exists THEN ensure_state_file(f)
    ELSE reconcile_recorded(f, get_state_value(f, KEY_PATH),
                            get_state_value(f, KEY_NAME), find_layout_files(f))

\* main, lines 722-727.
ensure_if_empty(f) ==
    IF ~f.state.exists \/ f.state.lines = <<>> THEN ensure_state_file(f) ELSE f

\* main, lines 736-738.
detect_and_ensure(f) == ensure_state_file(get_current_layout_from_config(f).fs)

\* A start of main that dispatches the command right after the drift check,
\* without the ensure steps of lines 722-738.
reconcile_without_ensure(f) == reconcile_config(f)

\* main, lines 577-738: everything before the command is dispatched.
reconcile(f) == detect_and_ensure(ensure_if_empty(reconcile_config(f)))

\* ------------------------------------------------------------ setup GUI
\* settings_manager.py, get_default_settings: two of the default settings.
DefaultSettings == [appearance |-> [icon_theme |-> "Papirus"],
                    performance |-> [vsync |-> "true"]]

\* SettingsManager.set_setting, lines 62-67: the value is stored and
\* save_settings writes the store to settings.json.
set_setting(store, category, key, value) ==
    (category :> ((key :> value)
                  @@ (IF category \in DOMAIN store THEN store[category]
                      ELSE <<>>)))
    @@ store

\* A change of an AI reply: the fields it has and their values.
complete(change) == {"category", "key", "value"} \subseteq change.fields

\* _extract_settings_changes, lines 153-161: every change that has the
\* three fields is handed to set_setting, in order.
RECURSIVE apply_changes(_, _)
apply_changes(store, changes) ==
    IF changes = <<>> THEN store
    ELSE apply_changes(
             IF complete(Head(changes))
             THEN set_setting(store, Head(changes).category,
                              Head(changes).key, Head(changes).value)
             ELSE store,
             Tail(changes))

\* _extract_settings_changes, lines 136-169.  A reply holds no JSON, text
\* that json.loads rejects, or an object with or without "changes".
\* Result: the store and the value returned ({} is <<>>).
extract_settings_changes(store, reply) ==
    IF reply.kind = "object" /\ reply.hasChanges
    THEN [store |-> apply_changes(store, reply.changes),
          changes |-> reply.changes]
    ELSE [store |-> store, changes |-> <<>>]

\* process_request, lines 42-95: without an API key or when the request
\* fails the result is a failure with no changes.
process_request(store, reply) ==
    IF reply.kind = "failure"
    THEN [store |-> store, success |-> FALSE, changes |-> <<>>]
    ELSE [store |-> extract_settings_changes(store, reply).store,
          success |-> TRUE,
          changes |-> extract_settings_changes(store, reply).changes]

\* update_settings_preview, lines 530-541: what the preview pane shows; a
\* change without one of the fields raises KeyError.
update_settings_preview(changes) ==
    IF changes = <<>> THEN [text |-> "No changes were made.", items |-> <<>>]
    ELSE IF \E i \in 1..Len(changes) : ~complete(changes[i])
    THEN [text |-> "KeyError", items |-> <<>>]
    ELSE [text |-> "Proposed Changes:", items |-> changes]

NoPreview == [text |-> "", items |-> <<>>]
NoResult == [success |-> FALSE, changes |-> <<>>]

\* HyDEGUI.__init__ and setup of the AI page: the store as loaded, an empty
\* preview.
StartGui == [phase |-> "idle", store |-> DefaultSettings,
             before |-> DefaultSettings, result |-> NoResult,
             preview |-> NoPreview]

\* ---------------------------------------------------------- layout switcher
\* The name list_layouts gives a layout: its path relative to the first
\* LAYOUT_DIRS entry it starts with, ".jsonc" removed.
relative_name(layout) == strip_jsonc(SubSeq(layout, 3, Len(layout)))

\* list_layouts, lines 376-386: one pair per catalogued layout.
layout_style_pairs(layouts) ==
    [i \in 1..Len(layouts) |->
        [layout |-> layouts[i],
         name |-> relative_name(layouts[i]),
         style |-> resolve_style_path(layouts[i])]]

list_layouts(f) == layout_style_pairs(find_layout_files(f))

\* ------------------------------------------------------- derived artifacts
\* A routine that can end the process returns [fs, exit]: exit 0 when it
\* returned, 1 when it raised or called sys.exit(1).
ok(f) == [fs |-> f, exit |-> 0]
crash(f) == [fs |-> f, exit |-> 1]

\* The statement after the one that returned n: it runs only if the process
\* is still alive.
andthen(n, Op(_)) == IF n.exit # 0 THEN n ELSE Op(n.fs)

\* The step has run to its end.
logged(f, step) == [f EXCEPT !.log = Append(@, step)]

\* {"include": []}
EMPTY_INCLUDES == [status |-> "ok", include |-> <<>>, sizes |-> 0]

\* glob of *.json in MODULE_DIRS: one module file, or none.
module_files == IF env.modules = "none" THEN <<>> ELSE <<"m.json">>

\* update_icon_size, lines 791-798: a missing or malformed includes.json is
\* read as {"include": []}.
load_includes(a) ==
    IF a.includes.status = "ok" THEN a.includes ELSE EMPTY_INCLUDES

\* update_icon_size, lines 800-813: the icon size of the module entry, the
\* font size times the entry's icon-size-multiplier.
final_icon_size == env.fontSize * env.multiplier

\* update_icon_size: parse_json_file raises on a malformed module file;
\* otherwise the module entries are merged into includes.json.
update_icon_size(f) ==
    IF env.modules = "bad" THEN crash(f)
    ELSE ok(logged([f EXCEPT !.art.includes =
                       [load_includes(f.art) EXCEPT !.sizes =
                           IF env.modules = "none" THEN @ ELSE final_icon_size]],
                   "icon"))

\* update_global_css: the template is copied when global.css is missing.
update_global_css(f) ==
    ok(logged([f EXCEPT !.art.global = @ \/ env.globalTemplate], "global"))

\* update_border_radius, lines 851-857: border-radius.css, copied from the
\* template when it is missing.
radius_css(a) ==
    IF a.radius.exists THEN a.radius
    ELSE [exists |-> TRUE, pt |-> env.templatePt]

\* update_border_radius, lines 863 and 877: `not border_radius` after hyq,
\* whose output is None when it is not an integer.
hyq_falsy == env.hyq.st # "ok" \/ env.hyq.out = 0

\* update_border_radius, lines 878-892.
hyprctl_radius ==
    CASE env.hyprctl.st = "ok" -> env.hyprctl.out
      [] env.hyprctl.st = "garbage" -> 3
      [] OTHER -> 2

\* update_border_radius, lines 863-892 without the override.
tool_radius == IF hyq_falsy THEN hyprctl_radius ELSE env.hyq.out

\* subprocess.run raises FileNotFoundError for a program that is not
\* installed.
tool_missing ==
    env.hyq.st = "missing" \/ (hyq_falsy /\ env.hyprctl.st = "missing")

\* update_border_radius, lines 894-895.
at_least_one(border_radius) == IF border_radius < 1 THEN 2 ELSE border_radius

\* update_border_radius.  The override is a str, which line 894 compares
\* with 1: a TypeError.
update_border_radius(f) ==
    IF ~f.art.radius.exists /\ ~env.radiusTemplate THEN ok(logged(f, "radius"))
    ELSE IF env.radiusEnv # None \/ tool_missing
         THEN crash([f EXCEPT !.art.radius = radius_css(f.art)])
    ELSE ok(logged([f EXCEPT !.art.radius =
                       [exists |-> TRUE, pt |-> at_least_one(tool_radius)]],
                   "radius"))

\* A generator that writes a new includes.json holding the include list only.
generate_includes_fresh(f) ==
    IF f.art.includes.status = "bad" THEN crash(f)
    ELSE ok(logged([f EXCEPT !.art.includes =
                       [EMPTY_INCLUDES EXCEPT !.include = module_files]],
                   "includes"))

\* generate_includes: json.load raises on a malformed includes.json; the
\* include list is replaced and the other keys are kept.
generate_includes(f) ==
    IF f.art.includes.status = "bad" THEN crash(f)
    ELSE ok(logged([f EXCEPT !.art.includes =
                       [load_includes(f.art) EXCEPT !.include = module_files]],
                   "includes"))

\* notify.send: the notifier is best-effort.
notify_send(f) == ok(logged(f, "notify"))

\* run_waybar_command("killall waybar; waybar & disown")
run_waybar_command(f) == ok(logged(f, "restart"))

\* main, lines 741-744, set_layout, lines 326-329 and rofi_selector, lines
\* 549-552.
update_artifacts(f) ==
    andthen(andthen(andthen(update_icon_size(f), update_border_radius),
                    generate_includes),
            update_global_css)

\* set_layout, lines 326-334 and rofi_selector, lines 549-557.
finish_switch(f) ==
    andthen(andthen(update_artifacts(f), notify_send), run_waybar_command)

\* A rewrite that replaces the layout path and keeps the style path.
rewrite_state_path_only(lines, layout_path, style_path) ==
    [i \in 1..Len(lines) |->
        IF lines[i][1] = KEY_PATH THEN <<KEY_PATH, layout_path>>
        ELSE lines[i]]

\* set_layout, lines 312-321: rewrite the state file line by line.
rewrite_state(lines, layout_path, style_path) ==
    [i \in 1..Len(lines) |->
        IF lines[i][1] = KEY_PATH THEN <<KEY_PATH, layout_path>>
        ELSE IF lines[i][1] = KEY_STYLE THEN <<KEY_STYLE, style_path>>
        ELSE lines[i]]

\* set_layout, lines 310-334.  Result: [fs, exit].
apply_layout(f, layout_path, style_path) ==
    finish_switch(
        [f EXCEPT !.state.lines = rewrite_state(@, layout_path, style_path),
                  !.config = f.tree[layout_path],
                  !.css = style_path,
                  !.switched = layout_path,
                  !.log = @ \o <<"state", "config", "style">>])

\* set_layout, lines 301-334, given the pairs and the index of the match.
switch_to_pair(f, pairs, hit) ==
    IF hit = 0 THEN [fs |-> f, exit |-> 1]
    ELSE apply_layout(f, pairs[hit].layout, resolve_style_path(pairs[hit].layout))

find_pair(pairs, layout) ==
    FirstIndex(pairs, LAMBDA pr : layout = pr.layout \/ layout = pr.name)

switch_among(f, pairs, layout) == switch_to_pair(f, pairs, find_pair(pairs, layout))

\* Result: [fs, exit]; exit is 1 when sys.exit(1) was called.
set_layout(f, layout) == switch_among(f, list_layouts(f), layout)

\* A --next that stops at the last layout instead of wrapping.
next_index_clamped(current_index, count) ==
    IF current_index + 1 < count THEN current_index + 1 ELSE current_index

\* The index handle_layout_navigation switches to from current_index.
next_index(current_index, count) == (current_index + 1) % count
prev_index(current_index, count) == (current_index - 1 + count) % count

\* Position of a layout in the catalogue, from 0 as list.index gives it.
index_of(layouts, layout) == FirstIndex(layouts, LAMBDA l : l = layout) - 1

\* Lines 359-370: the argument handed to set_layout.
navigation_target(layouts, current_index, option, arg) ==
    IF option = "--next"
    THEN layouts[next_index(current_index, Len(layouts)) + 1]
    ELSE IF option = "--prev"
    THEN layouts[prev_index(current_index, Len(layouts)) + 1]
    ELSE arg

\* Lines 354-370, r being the current layout after lines 351-353.  A
\* current layout that is not in `layouts` makes list.index raise
\* ValueError (exit status 1); --set without a sys.argv[2] only logs.
navigate(r, layouts, current_index, option, arg) ==
    IF r.ret = None THEN [fs |-> r.fs, exit |-> 0]
    ELSE IF current_index < 0 THEN [fs |-> r.fs, exit |-> 1]
    ELSE IF option = "--set" /\ arg = None THEN [fs |-> r.fs, exit |-> 0]
    ELSE set_layout(r.fs, navigation_target(layouts, current_index, option, arg))

navigate_from(r, layouts, option, arg) ==
    navigate(r, layouts, index_of(layouts, r.ret), option, arg)

\* Lines 351-353.
recache(f, current_layout) ==
    IF current_layout \in DOMAIN f.tree THEN [fs |-> f, ret |-> current_layout]
    ELSE get_current_layout_from_config(f)

\* Result: [fs, exit].  option is "--next", "--prev" or "--set"; arg is
\* sys.argv[2].
handle_layout_navigation(f, option, arg) ==
    IF get_state_value(f, KEY_PATH) = None THEN [fs |-> f, exit |-> 0]
    ELSE navigate_from(recache(f, get_state_value(f, KEY_PATH)),
                       find_layout_files(f), option, arg)

\* update_style, lines 964-967.
write_resolved_style(f, style_path) ==
    IF ~style_exists(style_path) THEN [fs |-> f, exit |-> 1]
    ELSE [fs |-> logged([f EXCEPT !.css = style_path], "style"), exit |-> 0]

\* update_style, lines 957-967, r being the result of line 958.
style_for(r) ==
    IF r.ret = None THEN [fs |-> r.fs, exit |-> 1]
    ELSE write_resolved_style(r.fs, resolve_style_path(r.ret))

\* update_style(None).  Result: [fs, exit].
update_style(f) == style_for(get_current_layout_from_config(f))

\* update_style(style_path), lines 957-967.
update_style_from(f, style_path) ==
    IF style_path = None THEN update_style(f)
    ELSE write_resolved_style(f, style_path)

\* main, lines 774-776.
refresh_artifacts(f) ==
    andthen(andthen(update_icon_size(f), update_border_radius),
            generate_includes)

\* main, lines 777-778, n being the result of lines 774-776.
restyle_and_restart(n, style_path) ==
    IF n.exit # 0 THEN n
    ELSE andthen(update_style_from(n.fs, style_path), run_waybar_command)

\* main, lines 774-779: the refresh every invocation without --watch ends
\* with.
refresh(f, style_path) == restyle_and_restart(refresh_artifacts(f), style_path)

\* main, lines 762-779 once the command returned n.
refresh_after(n) == IF n.exit # 0 THEN n ELSE refresh(n.fs, None)

\* update_config: shutil.copyfile raises when config_path does not exist.
update_config(f, config_path) ==
    IF ~path_exists(f, config_path) THEN [fs |-> f, exit |-> 1]
    ELSE [fs |-> copy_layout_to_config(f, config_path), exit |-> 0]

\* main, lines 774-779 with args.style set, n being the result of line 757.
restyle(n, style_path) ==
    IF n.exit # 0 THEN n ELSE refresh(n.fs, style_path)

\* main with --style: update_style(style_path) at line 757 and again at 777.
set_style(f, style_path) == restyle(write_resolved_style(f, style_path), style_path)

\* rofi_selector, lines 526-530: the pair whose name is the selection.
selected_pair(pairs, selected) ==
    FirstIndex(pairs, LAMBDA pr : pr.name = selected)

\* rofi_selector, lines 532-557: the selected layout is copied over the
\* config and recorded with its name and style.
apply_selected(f, pairs, hit, selected) ==
    IF hit = 0 THEN ok(f)
    ELSE finish_switch(
             [set_state_value(
                  set_state_value(
                      set_state_value(copy_layout_to_config(f, pairs[hit].layout),
                                      KEY_PATH, pairs[hit].layout),
                      KEY_NAME, selected),
                  KEY_STYLE, pairs[hit].style)
              EXCEPT !.css = pairs[hit].style, !.switched = pairs[hit].layout,
                     !.log = @ \o <<"config", "state", "style">>])

\* rofi_selector, lines 494-562, r being the current layout: current_layout[0]
\* raises IndexError when no pair is the current layout.
select_from(r, pairs, selected) ==
    IF find_pair(pairs, r.ret) = 0 \/ r.ret = None THEN [fs |-> r.fs, exit |-> 1]
    ELSE IF selected = None THEN [fs |-> ensure_state_file(r.fs), exit |-> 0]
    ELSE andthen(apply_selected(r.fs, pairs, selected_pair(pairs, selected),
                                selected),
                 LAMBDA g : ok(ensure_state_file(g)))

\* `selected` is what rofi_dmenu returns (None: the menu was dismissed).
rofi_selector(f, selected) ==
    IF list_layouts(f) = <<>> THEN [fs |-> f, exit |-> 1]
    ELSE select_from(get_current_layout_from_config(f), list_layouts(f), selected)

\* main, lines 740-779 for a command line with at most one flag.  arg is
\* sys.argv[2] for --set, the value of --config or --style, and the menu
\* selection for --select.  Result: [fs, exit].
dispatch(f, option, arg) ==
    CASE option = "none" -> refresh(f, None)
      [] option = "--update" -> refresh_after(update_artifacts(f))
      [] option = "--update-global-css" -> refresh_after(update_global_css(f))
      [] option = "--update-icon-size" -> refresh_after(update_icon_size(f))
      [] option = "--update-border-radius" ->
            refresh_after(update_border_radius(f))
      [] option = "--generate-includes" -> refresh_after(generate_includes(f))
      [] option \in {"--next", "--prev", "--set"} ->
            refresh_after(handle_layout_navigation(f, option, arg))
      [] option = "--config" -> refresh_after(update_config(f, arg))
      [] option = "--style" -> set_style(f, arg)
      [] option = "--select" -> rofi_selector(f, arg)
      [] option \in {"--json", "--kill", "--watch"} -> [fs |-> f, exit |-> 0]

\* ------------------------------------------------------------ initial files
PA == <<"L0", "/", "a", ".jsonc">>
PB == <<"L0", "/", "b", ".jsonc">>
PC == <<"L0", "/", "c", ".jsonc">>
PSA == <<"L3", "/", "a", ".jsonc">>
\* A layout in a subdirectory of the user layout directory.
PD == <<"L0", "/", "a", "/", "a", ".jsonc">>
\* A layout variant "a#b" in the subdirectory "c".
PH == <<"L0", "/", "c", "/", "a", "#", "b", ".jsonc">>
StaticLayouts == {PA, PB, PC, PSA, PD, PH}

\* What each static layout file holds (L3/a is a copy of L0/a).
StaticContent(p) ==
    CASE p = PA -> "A" [] p = PB -> "B" [] p = PC -> "C" [] p = PSA -> "A"
      [] p = PD -> "D" [] p = PH -> "H"

InitCatalogs == {{}, {PA, PB}, {PA, PB, PC}, {PB, PSA}, {PB, PD}}
InitPaths == {PA, PB, POther}
InitNames == {<<"a">>, <<"z">>}
InitStyles == {StylePath(1, DEFAULTS)}
InitConfigs == {NoFile, "A", "B", "X"}
StyleSetups == {<< <<DEFAULTS>>, <<>> >>,
                << <<>>, <<>> >>,
                << <<(<<"a">>)>>, <<DEFAULTS>> >>}

\* Every state file made of at most one line per key, in the order written
\* by ensure_state_file; the values may be stale.
InitStateFiles ==
    {[exists |-> FALSE, lines |-> <<>>]} \cup
    {[exists |-> TRUE, lines |-> p \o n \o s] :
        p \in {<<>>} \cup {<<(<<KEY_PATH, x>>)>> : x \in InitPaths},
        n \in {<<>>} \cup {<<(<<KEY_NAME, x>>)>> : x \in InitNames},
        s \in {<<>>} \cup {<<(<<KEY_STYLE, x>>)>> : x \in InitStyles}}

\* No artifact has been generated.
NoArt == [includes |-> [status |-> "absent", include |-> <<>>, sizes |-> 0],
          radius |-> [exists |-> FALSE, pt |-> 0],
          global |-> FALSE]

NoFiles == [tree |-> <<>>, config |-> NoFile,
            state |-> [exists |-> FALSE, lines |-> <<>>],
            css |-> None, made |-> 0, switched |-> None,
            art |-> NoArt, log |-> <<>>]

\* The invocations that can switch at the same time; none is running.
Procs == {1, 2}
NoRun == [pc |-> "done", target |-> None, lines |-> <<>>]
NoProcs == [run |-> <<NoRun, NoRun>>, overlapped |-> FALSE]

\* A machine with everything in place: one module file, both templates, no
\* WAYBAR_BORDER_RADIUS, hyq and hyprctl installed and answering.
PlainEnv == [modules |-> "ok", fontSize |-> 10, multiplier |-> 2,
             radiusTemplate |-> TRUE, templatePt |-> 0,
             globalTemplate |-> TRUE, radiusEnv |-> None,
             hyq |-> [st |-> "ok", out |-> 4],
             hyprctl |-> [st |-> "ok", out |-> 7],
             backupDir |-> "ok"]

\* The artifacts an earlier invocation left on that machine.
PlainArt == update_artifacts(NoFiles).fs.art
NoArgv == [option |-> "none", arg |-> None, set |-> None]

\* The command lines of Spec: no flag, --next, --prev, "--set <layout>" and
\* "--set=<layout>".  `set` is args.set and arg is sys.argv[2], which the
\* second form does not have.
SetArgs == {<<"b">>, <<"z">>}
Argvs == {[option |-> o, arg |-> None, set |-> None] :
             o \in {"none", "--next", "--prev"}}
         \cup {[option |-> "--set", arg |-> a, set |-> a] : a \in SetArgs}
         \cup {[option |-> "--set", arg |-> None, set |-> <<"z">>]}

InitCommon ==
    /\ styleCss = None
    /\ clock = 1
    /\ pc = "idle"
    /\ argv = NoArgv
    /\ exitCode = 0
    /\ pre = NoFiles
    /\ made = 0
    /\ switched = None
    /\ quiet = FALSE
    /\ origin = NoFiles
    /\ trail = <<>>
    /\ env = PlainEnv
    /\ art = PlainArt
    /\ log = <<>>
    /\ bar = TRUE
    /\ gui = StartGui
    /\ procs = NoProcs

Init ==
    /\ \E cat \in InitCatalogs : tree = [p \in cat |-> StaticContent(p)]
    /\ config \in InitConfigs
    /\ stateFile \in InitStateFiles
    /\ styleDirs \in StyleSetups
    /\ track = FALSE
    /\ InitCommon

\* ------------------------------------------------------------------ actions
\* The recorded run is kept while it is a prefix of: --next repeated,
\* --prev then --next, or a plain run followed by --next repeated.
TrailOK(t) ==
    /\ Len(t) <= MaxTrail
    /\ \A i \in 2..Len(t) : t[i] = "--next"
    /\ t # <<>> => t[1] \in {"none", "--next", "--prev"}
    /\ (t # <<>> /\ t[1] = "--prev") => Len(t) <= 2

\* The files become f.
Store(f) ==
    /\ tree' = f.tree
    /\ config' = f.config
    /\ stateFile' = f.state
    /\ styleCss' = f.css
    /\ made' = f.made
    /\ switched' = f.switched
    /\ art' = f.art
    /\ log' = f.log

\* The files become r.fs and the exit status r.exit.
Finish(r) == Store(r.fs) /\ exitCode' = r.exit

\* The recorded run after an invocation of `option` ended with `status`.
Extended(t, option, status) == Append(t, IF status = 0 THEN option ELSE "failed")

\* An invocation starts: main runs up to line 738.
Invoke(a) ==
    /\ pc = "idle"
    /\ Store(reconcile(Files))
    /\ pre' = Files
    /\ argv' = a
    /\ pc' = "reconciled"
    /\ origin' = IF track /\ trail = <<>> THEN Files ELSE origin
    /\ UNCHANGED <<styleDirs, clock, exitCode, quiet, track, trail, env, bar, gui, procs>>

\* The bar after a command that logged lg: kill_waybar (pkill -f waybar) ends
\* it, run_waybar_command ("killall waybar; waybar & disown") starts one.
bar_after(b, option, lg) ==
    IF option = "--kill" THEN FALSE
    ELSE IF \E i \in 1..Len(lg) : lg[i] = "restart" THEN TRUE
    ELSE b

\* main, lines 740-779: the command, then the refresh and the bar restart.
Command ==
    /\ pc = "reconciled"
    /\ Finish(dispatch(Files, argv.option, argv.arg))
    /\ pc' = IF argv.option = "--watch" THEN "watching" ELSE "done"
    /\ bar' = bar_after(bar, argv.option, log')
    /\ UNCHANGED <<styleDirs, clock, argv, pre, quiet, track, origin, trail,
                   env, gui, procs>>

\* The process ends.
Exit ==
    /\ pc = "done"
    /\ pc' = "idle"
    /\ quiet' = (argv.option = "none")
    /\ trail' = IF track /\ TrailOK(Extended(trail, argv.option, exitCode))
                THEN Extended(trail, argv.option, exitCode) ELSE <<>>
    /\ origin' = IF trail' = <<>> THEN NoFiles ELSE origin
    /\ pre' = NoFiles
    /\ made' = 0
    /\ switched' = None
    /\ argv' = NoArgv
    /\ exitCode' = 0
    /\ log' = <<>>
    /\ UNCHANGED <<tree, config, stateFile, styleDirs, styleCss, clock, track,
                   env, art, bar, gui, procs>>

\* Someone edits the live config between two invocations.
ExternalEdit ==
    /\ pc = "idle"
    /\ config # "X"
    /\ config' = "X"
    /\ quiet' = FALSE
    /\ trail' = <<>>
    /\ origin' = NoFiles
    /\ UNCHANGED <<tree, stateFile, styleDirs, styleCss, clock, pc, argv,
                   exitCode, pre, made, switched, track, env, art, log, bar, gui, procs>>

\* A second passes.
Tick ==
    /\ pc = "idle"
    /\ clock < MaxClock
    /\ clock' = clock + 1
    /\ UNCHANGED <<tree, config, stateFile, styleDirs, styleCss, pc, argv,
                   exitCode, pre, made, switched, quiet, track, origin, trail,
                   env, art, log, bar, gui, procs>>

Next ==
    \/ \E a \in Argvs : Invoke(a)
    \/ Command
    \/ Exit
    \/ ExternalEdit
    \/ Tick

Spec == Init /\ [][Next]_vars

\* Drift repair with a backup directory that can be written or not: two
\* layouts, a complete State Record for one of them, a live config that is a
\* layout's or the user's own.
InitDrift ==
    /\ tree = [p \in {PA, PB} |-> StaticContent(p)]
    /\ styleDirs = << <<(<<"a">>)>>, <<DEFAULTS>> >>
    /\ \E l \in {PA, PB} :
          stateFile = [exists |-> TRUE, lines |-> missing_lines(<<>>, l)]
    /\ config \in {"A", "B", "X"}
    /\ \E d \in {"ok", "readonly"} : env = [PlainEnv EXCEPT !.backupDir = d]
    /\ styleCss = None
    /\ clock = 1
    /\ pc = "idle"
    /\ argv = NoArgv
    /\ exitCode = 0
    /\ pre = NoFiles
    /\ made = 0
    /\ switched = None
    /\ quiet = FALSE
    /\ track = FALSE
    /\ origin = NoFiles
    /\ trail = <<>>
    /\ art = PlainArt
    /\ log = <<>>
    /\ bar = TRUE
    /\ gui = StartGui
    /\ procs = NoProcs

DriftArgvs == {[option |-> o, arg |-> None, set |-> None] :
                  o \in {"none", "--next"}}
NextDrift ==
    \/ \E a \in DriftArgvs : Invoke(a)
    \/ Command
    \/ Exit
    \/ ExternalEdit
    \/ Tick

SpecDrift == InitDrift /\ [][NextDrift]_vars

\* watch_waybar, lines 970-981.  pc is "watching" at the top of the loop and
\* "missing" between a pgrep that found no bar and run_waybar_command.
Watching == {"watching", "missing"}

\* What subprocess.run(["pgrep", "waybar"]) can do: exit 0 when a bar runs,
\* non-zero when none does, or raise.
pgrep(b) == {IF b THEN "found" ELSE "none", "error"}

\* The watcher goes on to the next poll whatever the poll did.
watch_next_fatal(outcome) ==
    CASE outcome = "none" -> "missing"
      [] outcome = "error" -> "done"
      [] OTHER -> "watching"

\* Lines 974-980: where the loop goes after the poll; an exception is caught
\* and logged.
watch_next(outcome) ==
    CASE outcome = "none" -> "missing"
      [] OTHER -> "watching"

\* Lines 973-975: one poll.
Poll ==
    /\ pc = "watching"
    /\ \E outcome \in pgrep(bar) :
          /\ pc' = watch_next(outcome)
          /\ log' = <<"poll", outcome>>
    /\ UNCHANGED <<tree, config, stateFile, styleDirs, styleCss, clock, argv,
                   exitCode, pre, made, switched, quiet, track, origin, trail,
                   env, art, bar, gui, procs>>

\* Lines 976-977: the relaunch after a poll that found no bar.
Relaunch ==
    /\ pc = "missing"
    /\ Store(run_waybar_command(Files).fs)
    /\ bar' = bar_after(bar, argv.option, log')
    /\ pc' = "watching"
    /\ UNCHANGED <<styleDirs, clock, argv, exitCode, pre, quiet, track,
                   origin, trail, env, gui, procs>>

\* The bar process ends while the watcher runs.
BarDies ==
    /\ pc \in Watching
    /\ bar
    /\ bar' = FALSE
    /\ UNCHANGED <<tree, config, stateFile, styleDirs, styleCss, clock, pc,
                   argv, exitCode, pre, made, switched, quiet, track, origin,
                   trail, env, art, log, gui, procs>>

\* SIGTERM or SIGINT reaches the watcher: signal_handler, lines 459-461, runs
\* killall waybar and then sys.exit(0).
Signal ==
    /\ pc \in Watching
    /\ bar' = FALSE
    /\ pc' = "done"
    /\ exitCode' = 0
    /\ UNCHANGED <<tree, config, stateFile, styleDirs, styleCss, clock, argv,
                   pre, made, switched, quiet, track, origin, trail,
                   env, art, log, gui, procs>>

\* Watch mode: waybar.py --watch over the files of InitCmd.
WatchArgvs == {[option |-> "--watch", arg |-> None, set |-> None]}
NextWatch ==
    \/ \E a \in WatchArgvs : Invoke(a)
    \/ Command
    \/ Poll
    \/ Relaunch
    \/ BarDies
    \/ Signal
    \/ Exit

\* The AI page of the setup GUI.  The changes a reply can carry:
Changes ==
    {[fields |-> {"category", "key", "value"}, category |-> "appearance",
      key |-> "icon_theme", value |-> v] : v \in {"Adwaita", "Papirus"}}
    \cup {[fields |-> {"category", "key", "value"}, category |-> "bar",
           key |-> "height", value |-> "30"],
          [fields |-> {"category", "key"}, category |-> "performance",
           key |-> "vsync", value |-> ""]}
ChangeLists ==
    {<<>>} \cup {<<c>> : c \in Changes}
    \cup {<<c, d>> : c \in Changes, d \in Changes}
Replies ==
    {[kind |-> k, hasChanges |-> FALSE, changes |-> <<>>] :
        k \in {"failure", "none", "invalid", "object"}}
    \cup {[kind |-> "object", hasChanges |-> TRUE, changes |-> l] :
             l \in ChangeLists}

GuiStep(g) ==
    /\ gui' = g
    /\ UNCHANGED <<tree, config, stateFile, styleDirs, styleCss, clock, pc,
                   argv, exitCode, pre, made, switched, quiet, track, origin,
                   trail, env, art, log, bar, procs>>

\* send_ai_request, lines 475-493: the worker thread is started.
SendRequest ==
    /\ gui.phase \in {"idle", "shown", "applied"}
    /\ GuiStep([gui EXCEPT !.phase = "waiting", !.before = gui.store])

\* AIWorker.run, lines 30-32: process_request on the reply, then the
\* finished signal.
WorkerRun(reply) ==
    /\ gui.phase = "waiting"
    /\ GuiStep([gui EXCEPT
                   !.phase = "replied",
                   !.store = process_request(gui.store, reply).store,
                   !.result = [success |-> process_request(gui.store, reply).success,
                               changes |-> process_request(gui.store, reply).changes]])

\* handle_ai_response, lines 495-511.
HandleResponse ==
    /\ gui.phase = "replied"
    /\ GuiStep([gui EXCEPT
                   !.phase = IF gui.result.success
                                /\ update_settings_preview(gui.result.changes).text
                                       = "KeyError"
                             THEN "aborted" ELSE "shown",
                   !.preview = IF gui.result.success
                                  /\ update_settings_preview(gui.result.changes).text
                                         # "KeyError"
                               THEN update_settings_preview(gui.result.changes)
                               ELSE @])

\* apply_ai_changes, lines 543-551: the Apply Changes button.
ApplyChanges ==
    /\ gui.phase = "shown"
    /\ GuiStep([gui EXCEPT !.phase = "applied"])

\* clear_ai_conversation, lines 523-528.
ClearConversation ==
    /\ gui.phase \in {"shown", "applied"}
    /\ GuiStep([gui EXCEPT !.phase = "idle", !.preview = NoPreview])

InitAI ==
    /\ tree = <<>>
    /\ config = NoFile
    /\ styleDirs = << <<>>, <<>> >>
    /\ stateFile = [exists |-> FALSE, lines |-> <<>>]
    /\ track = FALSE
    /\ InitCommon

NextAI ==
    \/ SendRequest
    \/ \E reply \in Replies : WorkerRun(reply)
    \/ HandleResponse
    \/ ApplyChanges
    \/ ClearConversation

SpecAI == InitAI /\ [][NextAI]_vars

\* Two invocations of set_layout at the same time.  Each goes through lines
\* 310-334 one system call at a time: "read" (the readlines of line 311),
\* "open" (open(STATE_FILE, "w") truncates the file), "flush" (the lines
\* written in the loop reach the file when it is closed, from offset 0),
\* "copy" (shutil.copyfile), "style" (write_style_file and the rest), "done".
InProgress(r) == r.pc \notin {"read", "done"}

\* What a close leaves in a file that holds `current`: the new lines from
\* offset 0, then what another writer had put beyond them.
overlay(current, new) ==
    new \o SubSeq(current, Len(new) + 1, Len(current))

RaceTargets == {<<PA, PB>>, <<PB, PA>>}
InitRace ==
    /\ tree = [p \in {PA, PB} |-> StaticContent(p)]
    /\ styleDirs = << <<(<<"a">>)>>, <<DEFAULTS>> >>
    /\ \E l \in {PA, PB} :
          /\ stateFile = [exists |-> TRUE, lines |-> missing_lines(<<>>, l)]
          /\ config = StaticContent(l)
          /\ styleCss = resolve_style_path(l)
    /\ \E t \in RaceTargets :
          procs = [run |-> [p \in Procs |->
                               [pc |-> "read", target |-> t[p], lines |-> <<>>]],
                   overlapped |-> FALSE]
    /\ env = PlainEnv
    /\ clock = 1
    /\ pc = "idle"
    /\ argv = NoArgv
    /\ exitCode = 0
    /\ pre = NoFiles
    /\ made = 0
    /\ switched = None
    /\ quiet = FALSE
    /\ track = FALSE
    /\ origin = NoFiles
    /\ trail = <<>>
    /\ art = PlainArt
    /\ log = <<>>
    /\ bar = TRUE
    /\ gui = StartGui

\* Process p moves to position `to`; the files become f.
RaceStep(p, to, f) ==
    /\ procs' = [procs EXCEPT !.run[p].pc = to]
    /\ Store(f)
    /\ UNCHANGED <<styleDirs, clock, pc, argv, exitCode, pre, quiet, track,
                   origin, trail, env, bar, gui>>

\* Line 311: file.readlines().
RaceRead(p) ==
    /\ procs.run[p].pc = "read"
    /\ procs' = [procs EXCEPT
                    !.run[p].pc = "open",
                    !.run[p].lines = stateFile.lines,
                    !.overlapped = @ \/ \E q \in Procs \ {p} :
                                            InProgress(procs.run[q])]
    /\ UNCHANGED <<tree, config, stateFile, styleDirs, styleCss, clock, pc,
                   argv, exitCode, pre, made, switched, quiet, track, origin,
                   trail, env, art, log, bar, gui>>

\* Line 312: open(STATE_FILE, "w").
RaceOpen(p) ==
    /\ procs.run[p].pc = "open"
    /\ RaceStep(p, "flush", [Files EXCEPT !.state.lines = <<>>])

\* Lines 313-321: the rewritten lines, written when the file is closed.
RaceFlush(p) ==
    /\ procs.run[p].pc = "flush"
    /\ RaceStep(p, "copy",
                [Files EXCEPT !.state.lines =
                    overlay(@, rewrite_state(
                                   procs.run[p].lines, procs.run[p].target,
                                   resolve_style_path(procs.run[p].target)))])

\* Line 324: shutil.copyfile(layout_path, CONFIG_JSONC).
RaceCopy(p) ==
    /\ procs.run[p].pc = "copy"
    /\ RaceStep(p, "style",
                [Files EXCEPT !.config = tree[procs.run[p].target],
                              !.switched = procs.run[p].target])

\* Lines 325-334: write_style_file, the derived artifacts, the restart.
RaceStyle(p) ==
    /\ procs.run[p].pc = "style"
    /\ RaceStep(p, "done",
                finish_switch(
                    [Files EXCEPT !.css =
                        resolve_style_path(procs.run[p].target)]).fs)

NextRace ==
    \/ \E p \in Procs : RaceRead(p)
    \/ \E p \in Procs : RaceOpen(p)
    \/ \E p \in Procs : RaceFlush(p)
    \/ \E p \in Procs : RaceCopy(p)
    \/ \E p \in Procs : RaceStyle(p)

SpecRace == InitRace /\ [][NextRace]_vars

\* The state store on its own: set_state_value applied to state files of at
\* most MaxLines lines, with duplicate keys or not, ending in a newline or
\* not.
StoreValues == {<<"a">>, <<"b">>}
StoreLines == {<<k, v>> : k \in Keys, v \in StoreValues}
StoreTexts ==
    {<<>>} \cup {<<x>> : x \in StoreLines}
           \cup {<<x, y>> : x \in StoreLines, y \in StoreLines}
StoreFiles ==
    {[exists |-> FALSE, lines |-> <<>>]}
    \cup {[exists |-> TRUE, lines |-> t] : t \in StoreTexts}
    \cup {[exists |-> TRUE,
           lines |-> [t EXCEPT ![Len(t)] = <<@[1], @[2], "open">>]] :
              t \in StoreTexts \ {<<>>}}

InitStore ==
    /\ tree = <<>>
    /\ config = NoFile
    /\ styleDirs = << <<>>, <<>> >>
    /\ stateFile \in StoreFiles
    /\ track = FALSE
    /\ InitCommon

\* set_state_value(key, value) is called.
SetValue(key, value) ==
    /\ pc = "idle"
    /\ Len(stateFile.lines) <= MaxLines
    /\ Store(set_state_value(Files, key, value))
    /\ pre' = Files
    /\ argv' = [option |-> "set_state_value", arg |-> value, set |-> key]
    /\ pc' = "done"
    /\ UNCHANGED <<styleDirs, clock, exitCode, quiet, track, origin, trail, env, bar, gui, procs>>

NextStore ==
    \/ \E key \in Keys : \E value \in StoreValues : SetValue(key, value)
    \/ Exit

SpecStore == InitStore /\ [][NextStore]_vars

\* The derived artifacts over every machine: module files that parse, that
\* do not, or none; templates present or not; WAYBAR_BORDER_RADIUS unset or
\* "5"; hyq and hyprctl answering, failing, printing something else or not
\* installed; artifacts never generated, left by an earlier run, or with a
\* malformed includes.json.
ToolRuns(outs) ==
    {[st |-> "ok", out |-> n] : n \in outs}
    \cup {[st |-> x, out |-> 0] : x \in {"fail", "garbage", "missing"}}
ArtEnvs ==
    {[PlainEnv EXCEPT !.modules = m, !.radiusTemplate = rt,
                      !.globalTemplate = gt, !.radiusEnv = re,
                      !.hyq = hq, !.hyprctl = hc] :
        m \in {"ok", "bad", "none"}, rt \in BOOLEAN, gt \in BOOLEAN,
        re \in {None, <<"5">>},
        hq \in ToolRuns({0, 4}), hc \in ToolRuns({0, 7})}
StaleArt == [includes |-> [status |-> "ok", include |-> <<"old.json">>,
                           sizes |-> 5],
             radius |-> [exists |-> TRUE, pt |-> 9],
             global |-> TRUE]
ArtInits == {NoArt, StaleArt,
             [StaleArt EXCEPT !.includes =
                 [status |-> "bad", include |-> <<>>, sizes |-> 0]]}
ArtArgvs == {[option |-> o, arg |-> None, set |-> None] :
                o \in {"none", "--next", "--generate-includes"}}

InitArt ==
    /\ tree = [p \in {PA, PB} |-> StaticContent(p)]
    /\ config = "A"
    /\ styleDirs \in {<< <<(<<"a">>)>>, <<DEFAULTS>> >>, << <<>>, <<>> >>}
    /\ stateFile = [exists |-> TRUE, lines |-> missing_lines(<<>>, PA)]
    /\ styleCss = None
    /\ clock = 1
    /\ pc = "idle"
    /\ argv = NoArgv
    /\ exitCode = 0
    /\ pre = NoFiles
    /\ made = 0
    /\ switched = None
    /\ quiet = FALSE
    /\ track = FALSE
    /\ origin = NoFiles
    /\ trail = <<>>
    /\ env \in ArtEnvs
    /\ bar = TRUE
    /\ gui = StartGui
    /\ procs = NoProcs
    /\ art \in ArtInits
    /\ log = <<>>

\* write_style_file(style_filepath, source_filepath)
write_style_file(f, source_filepath) == [f EXCEPT !.css = source_filepath]

Routines == {"update_icon_size", "update_border_radius", "generate_includes",
             "write_style_file"}

\* One derived-artifact routine, called on its own.
routine(f, name) ==
    CASE name = "update_icon_size" -> update_icon_size(f)
      [] name = "update_border_radius" -> update_border_radius(f)
      [] name = "generate_includes" -> generate_includes(f)
      [] name = "write_style_file" ->
            ok(write_style_file(f, StylePath(1, <<"a">>)))

RunRoutine(name) ==
    /\ pc = "idle"
    /\ Finish(routine(Files, name))
    /\ pre' = Files
    /\ argv' = [option |-> name, arg |-> None, set |-> None]
    /\ pc' = "done"
    /\ UNCHANGED <<styleDirs, clock, quiet, track, origin, trail, env, bar, gui, procs>>

NextArt ==
    \/ \E a \in ArtArgvs : Invoke(a)
    \/ Command
    \/ \E name \in Routines : RunRoutine(name)
    \/ Exit

SpecArt == InitArt /\ [][NextArt]_vars

\* The whole command surface, one flag per command line, over a small set
\* of files.
CmdArgvs ==
    Argvs
    \cup {[option |-> o, arg |-> None, set |-> None] :
             o \in {"--update", "--json", "--kill", "--watch"}}
    \cup {[option |-> "--set", arg |-> None, set |-> <<"b">>]}
    \cup {[option |-> "--config", arg |-> a, set |-> None] : a \in {PB, PC}}
    \cup {[option |-> "--style", arg |-> a, set |-> None] :
             a \in {StylePath(1, <<"a">>), StylePath(2, <<"a">>)}}
    \cup {[option |-> "--select", arg |-> a, set |-> None] :
             a \in {None, <<"b">>}}

InitCmd ==
    /\ \E cat \in {{}, {PA, PB}} : tree = [p \in cat |-> StaticContent(p)]
    /\ config \in {NoFile, "A", "X"}
    /\ styleDirs \in {<< <<(<<"a">>)>>, <<DEFAULTS>> >>, << <<>>, <<>> >>,
                      << <<DEFAULTS>>, <<DEFAULTS>> >>}
    /\ stateFile \in {[exists |-> FALSE, lines |-> <<>>],
                      [exists |-> TRUE, lines |-> <<(<<KEY_NAME, <<"a">> >>)>>],
                      [exists |-> TRUE, lines |-> missing_lines(<<>>, PA)]}
    /\ track = FALSE
    /\ InitCommon

NextCmd ==
    \/ \E a \in CmdArgvs : Invoke(a)
    \/ Command
    \/ Exit
    \/ Signal
    \/ ExternalEdit
    \/ Tick

SpecCmd == InitCmd /\ [][NextCmd]_vars

SpecWatch == InitCmd /\ [][NextWatch]_vars

\* The navigation scenarios: a catalogue of one to three layouts in the user
\* layout directory, a State Record that is absent or complete for one of
\* them, and the run of invocations recorded in trail.
NavCatalogs == {{PB}, {PA, PB}, {PA, PB, PC}}
InitNav ==
    /\ \E cat \in NavCatalogs :
          /\ tree = [p \in cat |-> StaticContent(p)]
          /\ styleDirs = << <<(<<"a">>)>>, <<DEFAULTS>> >>
          /\ \/ stateFile = [exists |-> FALSE, lines |-> <<>>]
             \/ \E l \in cat :
                   stateFile = [exists |-> TRUE, lines |-> missing_lines(<<>>, l)]
          /\ config \in {NoFile, "X"} \cup {StaticContent(p) : p \in cat}
    /\ track = TRUE
    /\ InitCommon

SpecNav == InitNav /\ [][Next]_vars

\* The style resolver's inputs: every listing of at most MaxListing style
\* files per style directory, in the order glob returns them, for the layout
\* c/a#b.jsonc alone or next to a.jsonc; no State Record, no Live Config.
StyleNames == {<<"a", "#", "b">>, <<"a">>, <<"c">>}
StyleListings ==
    {<<>>} \cup {<<x>> : x \in StyleNames}
    \cup (IF MaxListing < 2 THEN {}
          ELSE {q \in StyleNames \X StyleNames : q[1] # q[2]})
    \cup (IF MaxListing < 3 THEN {}
          ELSE {q \in StyleNames \X StyleNames \X StyleNames :
                   q[1] # q[2] /\ q[1] # q[3] /\ q[2] # q[3]})
InitStyle ==
    /\ \E cat \in {{PH}, {PA, PH}} : tree = [p \in cat |-> StaticContent(p)]
    /\ styleDirs \in StyleListings \X StyleListings
    /\ stateFile = [exists |-> FALSE, lines |-> <<>>]
    /\ config = NoFile
    /\ track = FALSE
    /\ InitCommon

\* The invocations that record and compose a style: a run without flags and
\* a switch to the next layout.
StyleArgvs ==
    {[option |-> o, arg |-> None, set |-> None] : o \in {"none", "--next"}}
NextStyle ==
    \/ \E a \in StyleArgvs : Invoke(a)
    \/ Command
    \/ Exit
    \/ ExternalEdit
    \/ Tick

SpecStyle == InitStyle /\ [][NextStyle]_vars

\* ------------------------------------------------------------------- claims
\* A Backup is a file of the backup directory.
BACKUP_DIR == <<"L0", "/", "b", "a", "c", "k", "u", "p", "/">>
Backups(t) == {p \in DOMAIN t : startswith(p, BACKUP_DIR)}

\* LAYOUT_PATH as the state file recorded it when the invocation started.
PrePath == get_state_value(pre, KEY_PATH)
PreName == get_state_value(pre, KEY_NAME)
\* LAYOUT_PATH, LAYOUT_NAME and STYLE_PATH as recorded now.
NowPath == get_state_value(Files, KEY_PATH)
NowName == get_state_value(Files, KEY_NAME)
NowStyle == get_state_value(Files, KEY_STYLE)

\* C1: after the reconciliation phase of an invocation whose State Record
\* named an existing layout file, the Live Config exists and equals that
\* layout's content, whether the Live Config was absent, equal or edited.
C1_ConfigEqualsRecordedLayout ==
    (pc = "reconciled" /\ PrePath # None /\ PrePath \in DOMAIN pre.tree)
        => (config # NoFile /\ config = tree[PrePath])

\* C2: drift repair.  If the State Record names an existing layout L and the
\* Live Config differs from L, reconciliation creates exactly one new Backup
\* holding the Live Config as it was, and the Live Config then equals L.
C2_DriftMakesOneBackup ==
    (/\ pc = "reconciled"
     /\ PrePath # None /\ PrePath \in DOMAIN pre.tree
     /\ pre.config # NoFile /\ pre.config # pre.tree[PrePath])
        => (/\ Cardinality(Backups(tree) \ Backups(pre.tree)) = 1
            /\ \A b \in Backups(tree) \ Backups(pre.tree) : tree[b] = pre.config
            /\ config = pre.tree[PrePath])

\* C3: idempotence.  A reconciliation that directly follows a plain run, with
\* no external modification in between, writes no Backup and leaves the
\* State Record file as the first run left it.
C3_SecondRunChangesNothing ==
    (pc = "reconciled" /\ quiet)
        => (made = 0 /\ tree = pre.tree /\ stateFile = pre.state)

\* C4: hash detection.  With no State Record and a Live Config equal to a
\* catalogued layout, reconciliation leaves the Live Config and the Backups
\* as they were and records a catalogued LAYOUT_PATH whose content equals
\* the Live Config.
HashDetectable ==
    /\ ~pre.state.exists
    /\ pre.config # NoFile
    /\ \E l \in DOMAIN pre.tree : pre.tree[l] = pre.config

C4_HashDetection ==
    (pc = "reconciled" /\ HashDetectable)
        => (/\ config = pre.config
            /\ made = 0
            /\ tree = pre.tree
            /\ stateFile.exists
            /\ NowPath \in DOMAIN tree
            /\ tree[NowPath] = config)

C4_Witness ==
    /\ pc = "reconciled" /\ HashDetectable
    /\ NowPath = PSA /\ config = "A" /\ PB \in DOMAIN tree

\* The recorded run started from these files.
OriginPath == get_state_value(origin, KEY_PATH)
AllNext(t) == \A i \in 1..Len(t) : t[i] = "--next"

\* C5: with exactly a.jsonc, b.jsonc and c.jsonc in one layout directory, no
\* State Record and no Live Config, the first run makes a the active layout
\* (Live Config equal to a.jsonc, LAYOUT_NAME=a) and three --next
\* invocations make it b, then c, then a again.
FreshABC ==
    /\ DOMAIN origin.tree = {PA, PB, PC}
    /\ ~origin.state.exists
    /\ origin.config = NoFile

Active(p) == NowPath = p /\ config = StaticContent(p)

C5_FirstRunThenNext ==
    (pc = "idle" /\ trail # <<>> /\ trail[1] = "none" /\ FreshABC)
        => (/\ Len(trail) = 1 => (Active(PA) /\ NowName = <<"a">>)
            /\ Len(trail) = 2 => Active(PB)
            /\ Len(trail) = 3 => Active(PC)
            /\ Len(trail) = 4 => Active(PA))

\* C6: navigation wraparound.  From any active layout of a catalogue of N
\* layouts that stays as it is, N --next invocations in a row bring
\* LAYOUT_PATH and the Live Config back to the starting layout, and --prev
\* followed by --next does so too.
SameCatalog == DOMAIN tree = DOMAIN origin.tree
FullCircle ==
    /\ pc = "idle" /\ trail # <<>> /\ AllNext(trail)
    /\ Len(trail) = Cardinality(DOMAIN origin.tree)
BackAndForth == pc = "idle" /\ trail = <<"--prev", "--next">>

C6_NavigationWraps ==
    ((FullCircle \/ BackAndForth) /\ SameCatalog /\ OriginPath \in DOMAIN origin.tree)
        => (NowPath = OriginPath /\ config = tree[OriginPath])

C6_Witness ==
    /\ FullCircle /\ SameCatalog /\ OriginPath = PB
    /\ Len(trail) = 4 /\ NowPath = PB

\* C7: after a successful switch to layout T by --set, --next or --prev the
\* State Record holds LAYOUT_PATH = T, LAYOUT_NAME = T's derived name and
\* STYLE_PATH = the style resolved for T, and the Live Config equals T.
C7_SwitchRecordsAllKeys ==
    (pc = "done" /\ switched # None /\ exitCode = 0)
        => (/\ NowPath = switched
            /\ NowName = relative_name(switched)
            /\ NowStyle = resolve_style_path(switched)
            /\ config = tree[switched])

\* C8: self-healing.  If the State Record starts with a non-empty proper
\* subset of the three keys and the Catalog is not empty, then after one
\* invocation (here one with no flag, which switches nothing) all three
\* keys are present and the keys that were present keep their values.
KeysOf(st) == {k \in Keys : has_key(st.lines, k)}
PartialRecord ==
    /\ pre.state.exists
    /\ KeysOf(pre.state) # {} /\ KeysOf(pre.state) # Keys
    /\ DOMAIN pre.tree # {}

C8_MissingKeysHealed ==
    (pc = "done" /\ argv.option = "none" /\ PartialRecord)
        => (/\ KeysOf(stateFile) = Keys
            /\ \A k \in KeysOf(pre.state) :
                  get_state_value(Files, k) = get_state_value(pre, k))

\* C9: a stale LAYOUT_PATH is repaired by name.  If LAYOUT_PATH names no
\* existing file and a catalogued layout has the derived name LAYOUT_NAME,
\* then after reconciliation LAYOUT_PATH is that layout and the Live Config
\* equals its content, whether or not the Live Config existed.
NamedLayouts == {l \in DOMAIN pre.tree : relative_name(l) = PreName}
StalePath == PrePath # None /\ ~path_exists(pre, PrePath)

C9_StalePathRepairedByName ==
    (pc = "reconciled" /\ StalePath /\ NamedLayouts # {})
        => (NowPath \in NamedLayouts /\ config = tree[NowPath])

\* C10: if LAYOUT_PATH names no existing file and no catalogued layout
\* matches LAYOUT_NAME, the invocation ends with a fatal error and rewrites
\* neither the State Record nor an existing Live Config.
Unresolvable ==
    /\ StalePath
    /\ layout_by_name(find_layout_files(pre), PreName) = 0

FirstOfCatalog == find_layout_files(pre)[1]
MatchesByHash == {l \in DOMAIN pre.tree : pre.tree[l] = pre.config}

Reconciled == reconcile(pre)
Running == pc \in {"reconciled", "watching", "done"}

\* C11: whenever an invocation has written a new LAYOUT_PATH (by a switch,
\* --next/--prev, the correction of a stale path by name, hash detection or
\* the default fallback), STYLE_PATH is the style resolved for that path.
C11_StyleFollowsLayoutPath ==
    (Running /\ NowPath # None /\ NowPath # PrePath)
        => NowStyle = resolve_style_path(NowPath)

\* C12: a --set whose target is neither the path nor the name of a
\* catalogued layout ends with a non-zero exit status and leaves the State
\* Record, the Live Config and the composed style file as reconciliation
\* left them; no layout is applied.
UnknownTarget ==
    /\ argv.option = "--set" /\ argv.set # None
    /\ find_pair(list_layouts(Reconciled), argv.set) = 0

C12_UnknownTargetIsFatal ==
    (pc = "done" /\ UnknownTarget)
        => (/\ exitCode # 0
            /\ stateFile = Reconciled.state
            /\ config = Reconciled.config
            /\ styleCss = Reconciled.css
            /\ switched = None)

\* C13: the set of files find_layout_files returns is the same during and
\* after an invocation as it was before it.
C13_CatalogUnchanged ==
    Running => DOMAIN tree = DOMAIN pre.tree

\* C14: no invocation changes the content of a file that was a catalogued
\* layout when it started.
C14_LayoutsNeverWritten ==
    Running => \A l \in DOMAIN pre.tree : l \in DOMAIN tree /\ tree[l] = pre.tree[l]

\* C15: Backups are append-only.  Every Backup that existed when the
\* invocation started still exists with the same content, and every backup
\* copy the invocation made is a new Backup file.
C15_BackupsAppendOnly ==
    Running
        => (/\ \A b \in Backups(pre.tree) : b \in DOMAIN tree /\ tree[b] = pre.tree[b]
            /\ Cardinality(Backups(tree) \ Backups(pre.tree)) = made)

\* C16: reconciliation comes first.  Every step that belongs to a command
\* (it ends the command, writes the composed style file or applies a
\* layout), whichever of the commands it is, starts from a state in which
\* main has run its drift check and repair (an existing Live Config equals
\* the existing recorded layout) and its ensure step (the State Record
\* exists and, when the Catalog is not empty, holds a LAYOUT_PATH).
DriftRepaired ==
    (PrePath # None /\ path_exists(pre, PrePath) /\ pre.config # NoFile)
        => config = read_file(Files, PrePath)
RecordEnsured ==
    stateFile.exists /\ (DOMAIN pre.tree # {} => NowPath # None)
CommandStep ==
    \/ pc # "watching" /\ pc' \in {"done", "watching"}
    \/ styleCss' # styleCss
    \/ switched' \notin {switched, None}

C16_ReconciliationFirst ==
    [][CommandStep => (pc = "reconciled" /\ DriftRepaired /\ RecordEnsured)]_vars

C16_Witness ==
    /\ pc = "done" /\ argv.option = "--json" /\ exitCode = 0
    /\ ~pre.state.exists /\ pre.config = "X" /\ made = 1
    /\ NowPath = PA /\ config = "A"

\* C17: one derived name per layout.  When reconciliation records a
\* LAYOUT_NAME for the catalogued layout it records as LAYOUT_PATH, that
\* name is the name list_layouts reports for the layout, set_layout finds
\* the layout under it, and the name lookup of the stale-path repair finds
\* the layout under it.
NameRecorded ==
    /\ pc = "reconciled"
    /\ PreName = None /\ NowName # None
    /\ NowPath \in DOMAIN tree

C17_OneNameEverywhere ==
    NameRecorded
        => (/\ NowName = relative_name(NowPath)
            /\ find_pair(list_layouts(Files), NowName) # 0
            /\ list_layouts(Files)[find_pair(list_layouts(Files), NowName)].layout
                  = NowPath
            /\ layout_by_name(find_layout_files(Files), NowName) # 0
            /\ find_layout_files(Files)[
                    layout_by_name(find_layout_files(Files), NowName)] = NowPath)

\* C18: --next or --prev from a stale active layout.  If the LAYOUT_PATH
\* the navigation reads from the State Record is not in the (non-empty)
\* Catalog, the navigation still completes: a catalogued layout is applied,
\* recorded as LAYOUT_PATH and copied over the Live Config.
ReconciledPath == get_state_value(Reconciled, KEY_PATH)
StaleAtNavigation ==
    /\ argv.option \in {"--next", "--prev"}
    /\ DOMAIN pre.tree # {}
    /\ ReconciledPath # None
    /\ ReconciledPath \notin DOMAIN Reconciled.tree

C18_NavigationFromStale ==
    (pc = "done" /\ StaleAtNavigation)
        => (/\ switched # None
            /\ switched \in DOMAIN tree
            /\ NowPath = switched
            /\ config = tree[switched])

\* C19: a corrupted or partial State Record is not fatal.  With a Catalog
\* that is not empty and a defaults style on disk, an invocation with no
\* flag, --next or --prev ends with exit status 0 and a recorded
\* LAYOUT_PATH, whatever the State Record and the Live Config were.
StyleOnDisk ==
    \E d \in 1..Len(STYLE_DIRS) : style_exists(StylePath(d, DEFAULTS))

C19_PartialRecordNotFatal ==
    (/\ pc = "done"
     /\ argv.option \in {"none", "--next", "--prev"}
     /\ DOMAIN pre.tree # {}
     /\ StyleOnDisk)
        => (exitCode = 0 /\ NowPath # None)

\* C20: style resolution is ordered by directory first, heuristic second.
\* For every catalogued layout, if (d, h) is the first pair, taking the
\* style directories in priority order and within a directory the heuristics
\* name-prefix, name before "#", containing directory's name, whose glob
\* matches, then resolve_style_path returns the first file of that glob; and
\* the style an invocation records when it creates the State Record, and the
\* one it composes, is that file.
Heuristic(h, l) ==
    heuristic_prefix(h, layout_basename(l), basename(dirname(l)))
PairMatches(d, h, l) == glob_styles(d, Heuristic(h, l)) # <<>>
FirstPair(d, h, l) ==
    /\ PairMatches(d, h, l)
    /\ \A e \in 1..Len(STYLE_DIRS) : \A g \in 1..3 :
          (e < d \/ (e = d /\ g < h)) => ~PairMatches(e, g, l)

C20_DirectoryBeforeHeuristic ==
    \A l \in DOMAIN tree : \A d \in 1..Len(STYLE_DIRS) : \A h \in 1..3 :
        FirstPair(d, h, l)
            => (/\ resolve_style_path(l) = glob_styles(d, Heuristic(h, l))[1]
                /\ (pc = "done" /\ exitCode = 0 /\ ~pre.state.exists /\ NowPath = l)
                      => (/\ NowStyle = glob_styles(d, Heuristic(h, l))[1]
                          /\ styleCss = glob_styles(d, Heuristic(h, l))[1]))

\* The first directory matches only by the directory name, the second one
\* by the exact name: the first directory's c.css wins.
C20_Witness ==
    /\ pc = "done" /\ exitCode = 0 /\ ~pre.state.exists
    /\ NowPath = PH
    /\ styleDirs = << <<(<<"c">>)>>, << <<"a", "#", "b">>, <<"a">> >> >>
    /\ NowStyle = StylePath(1, <<"c">>)
    /\ styleCss = StylePath(1, <<"c">>)

\* C21: style resolution never fails.  For every layout file on disk and
\* every content of the style directories, resolve_style_path returns one
\* path, a style on disk or the defaults path of the first style directory;
\* when no directory matches by any heuristic it returns the defaults file
\* of the first style directory that contains one, and when no directory
\* contains one the defaults path under the first style directory; and a
\* switch to such a layout composes the style from that path.
NoPairMatches(l) ==
    \A d \in 1..Len(STYLE_DIRS) : \A h \in 1..3 : ~PairMatches(d, h, l)
HasDefaults(d) == \E i \in 1..Len(styleDirs[d]) : styleDirs[d][i] = DEFAULTS
FirstDefaults(d) == HasDefaults(d) /\ \A e \in 1..(d - 1) : ~HasDefaults(e)

C21_StyleAlwaysResolves ==
    \A l \in DOMAIN tree \cup OtherFiles :
        /\ \/ style_exists(resolve_style_path(l))
           \/ resolve_style_path(l) = StylePath(1, DEFAULTS)
        /\ NoPairMatches(l) =>
              /\ \A d \in 1..Len(STYLE_DIRS) :
                    FirstDefaults(d) => resolve_style_path(l) = StylePath(d, DEFAULTS)
              /\ (\A d \in 1..Len(STYLE_DIRS) : ~HasDefaults(d))
                    => resolve_style_path(l) = StylePath(1, DEFAULTS)
              /\ (pc = "done" /\ switched = l)
                    => styleCss = resolve_style_path(l)

\* No style matches b.jsonc and only the second style directory has a
\* defaults file: a switch to b.jsonc composes the style from it.
C21_Witness ==
    /\ pc = "done" /\ exitCode = 0 /\ switched = PB
    /\ NoPairMatches(PB)
    /\ ~HasDefaults(1) /\ HasDefaults(2)
    /\ styleCss = StylePath(2, DEFAULTS)

\* C22: the Catalog is the union of all files with the layout extension
\* found recursively under the layout directories, sorted by absolute path.
\* find_layout_files returns every file on disk that ends in ".jsonc", in a
\* subdirectory or not, and no other file, each once and in strictly
\* increasing order of Python's string comparison; directories that do not
\* exist contribute nothing, so that the result is empty when none exists;
\* and an invocation that finds neither State Record nor Live Config records
\* the first path of that order.
LayoutFilesOnDisk == {p \in DOMAIN tree \cup OtherFiles : p[Len(p)] = ".jsonc"}
Catalog == find_layout_files(Files)

SortedUnion(c) ==
    /\ {c[i] : i \in 1..Len(c)} = LayoutFilesOnDisk
    /\ \A i \in 1..(Len(c) - 1) : PathLess(c[i], c[i + 1])

C22_CatalogSortedUnion ==
    /\ SortedUnion(Catalog)
    /\ (pc = "reconciled" /\ ~pre.state.exists /\ pre.config = NoFile
          /\ DOMAIN pre.tree # {})
          => \A p \in DOMAIN pre.tree : p = NowPath \/ PathLess(NowPath, p)

\* A layout in a subdirectory, one at the top of the same directory and a
\* backup: "a/a.jsonc" < "b.jsonc" < "backup/...".
C22_Witness ==
    /\ pc = "reconciled"
    /\ Catalog = <<PD, PB, backup_path(1)>>

\* C23: the State Store round trip.  After set_state_value(k, v),
\* get_state_value(k) returns v and get_state_value(k') returns what it
\* returned before for every other key k'; set creates the file with the
\* single line of k when the file is absent, replaces the line of k when
\* there is one and appends it otherwise; get returns the default when the
\* file or the key is absent.
StoreStep == pc = "done" /\ argv.option = "set_state_value"
HadKey(k) == \E i \in 1..Len(pre.state.lines) : pre.state.lines[i][1] = k

C23_SetThenGet ==
    /\ \A k \in Keys :
          (~stateFile.exists \/ \A i \in 1..Len(stateFile.lines) :
                                  stateFile.lines[i][1] # k)
              => get_state_value(Files, k) = None
    /\ StoreStep =>
          /\ get_state_value(Files, argv.set) = argv.arg
          /\ \A k \in Keys \ {argv.set} :
                get_state_value(Files, k) = get_state_value(pre, k)
          /\ ~pre.state.exists
                => stateFile = [exists |-> TRUE,
                                lines |-> <<(<<argv.set, argv.arg>>)>>]
          /\ (pre.state.exists /\ HadKey(argv.set))
                => Len(stateFile.lines) = Len(pre.state.lines)
          /\ (pre.state.exists /\ ~HadKey(argv.set))
                => Len(stateFile.lines) = Len(pre.state.lines) + 1

\* Position of the first occurrence of a step in the log (0: it did not run
\* to its end).
Pos(step) == FirstIndex(log, LAMBDA x : x = step)
Ran(step) == Pos(step) # 0

\* C24: the derived-artifact steps are independent.  A plain invocation on
\* a catalogued, recorded layout ends with exit status 0 and has run the
\* icon-size, border-radius and include-manifest steps and the bar restart,
\* whatever is missing or malformed: a template, every default style, the
\* includes file or a module file.
C24_StepsIndependent ==
    (pc = "done" /\ argv.option = "none")
        => (/\ exitCode = 0
            /\ Ran("icon") /\ Ran("radius") /\ Ran("includes")
            /\ Ran("restart"))

\* C25: external tool failure is never fatal.  With module files that
\* parse, a style on disk and no WAYBAR_BORDER_RADIUS, a plain invocation,
\* a switch and a border-radius update end with exit status 0 and a border
\* radius of at least 1 in border-radius.css, whether hyq and hyprctl
\* answer, fail, print something else or are not installed.
C25_ToolFailureNotFatal ==
    (/\ pc = "done"
     /\ argv.option \in {"none", "--next", "update_border_radius"}
     /\ env.modules # "bad" /\ env.radiusEnv = None /\ StyleOnDisk)
        => (/\ exitCode = 0
            /\ Ran("radius")
            /\ art.radius.exists => art.radius.pt >= 1)

\* C26: an invocation with no flag performs the artifact refresh, icon
\* size, border radius, include manifest and composed style in that order,
\* followed by one bar restart; an invocation with a switch flag performs
\* the switch only and one with the query flag --json nothing else.
RefreshSteps == <<"icon", "radius", "includes", "style", "restart">>
SwitchSteps == <<"state", "config", "style", "icon", "radius", "includes",
                 "global", "notify", "restart">>

C26_OnlyTheRequestedCommand ==
    (pc = "done" /\ exitCode = 0)
        => (/\ argv.option = "none" => log = RefreshSteps
            /\ (argv.option \in {"--next", "--prev", "--set"} /\ switched # None)
                  => log = SwitchSteps
            /\ argv.option = "--json" => log = <<>>)

\* C27: in a successful switch, by --set, --next, --prev or the picker, the
\* State Record is rewritten before the Live Config is overwritten, the
\* Live Config before the composed style is regenerated, and the composed
\* style and the icon-size, border-radius and include artifacts before the
\* bar is restarted.
C27_SwitchOrder ==
    (pc = "done" /\ exitCode = 0 /\ switched # None)
        => (/\ Ran("state") /\ Pos("state") < Pos("config")
            /\ Pos("config") < Pos("style")
            /\ \A x \in {"style", "icon", "radius", "includes"} :
                  Ran(x) /\ Pos(x) < Pos("restart"))

\* C28: the composed style file never imports a style path that does not
\* exist on disk.
C28_ImportExists == styleCss # None => style_exists(styleCss)

\* C29: border-radius selection.  update_border_radius, with
\* border-radius.css or its template on disk, writes the value of the first
\* available source: WAYBAR_BORDER_RADIUS, then hyq, then hyprctl, then the
\* default; the value written is an integer of at least 1; and when
\* WAYBAR_BORDER_RADIUS is set the routine completes and writes it.
C29_RadiusSelection ==
    (/\ pc = "done" /\ argv.option = "update_border_radius"
     /\ (pre.art.radius.exists \/ env.radiusTemplate)
     /\ ~tool_missing)
        => (/\ exitCode = 0 => art.radius.pt >= 1
            /\ (exitCode = 0 /\ env.hyq.st = "ok" /\ env.hyq.out >= 1)
                  => art.radius.pt = env.hyq.out
            /\ env.radiusEnv = <<"5">>
                  => (exitCode = 0 /\ art.radius.pt = 5))

\* C30: each derived-artifact routine is idempotent and confined to its own
\* output.  After update_icon_size, update_border_radius, generate_includes
\* or write_style_file has run, running it again changes no artifact and
\* ends the same way; the run changed neither the State Record, the Live
\* Config nor a layout file; and it changed no other routine's output:
\* update_icon_size keeps the include list of a well-formed includes.json,
\* generate_includes keeps its icon-size entries, update_border_radius
\* leaves includes.json alone, and only write_style_file writes style.css.
RoutineStep == pc = "done" /\ argv.option \in Routines
Again == routine(Files, argv.option)
WellFormed == pre.art.includes.status = "ok"

C30_IdempotentAndConfined ==
    RoutineStep =>
        /\ Again.fs.art = art /\ Again.fs.css = styleCss
        /\ Again.exit = exitCode
        /\ stateFile = pre.state /\ config = pre.config /\ tree = pre.tree
        /\ art.global = pre.art.global
        /\ argv.option # "write_style_file" => styleCss = pre.css
        /\ argv.option # "update_border_radius" => art.radius = pre.art.radius
        /\ argv.option \notin {"update_icon_size", "generate_includes"}
              => art.includes = pre.art.includes
        /\ (argv.option = "update_icon_size" /\ WellFormed)
              => art.includes.include = pre.art.includes.include
        /\ (argv.option = "generate_includes" /\ WellFormed)
              => art.includes.sizes = pre.art.includes.sizes

\* generate_includes replaced the include list of an includes.json that
\* held icon sizes, and kept them.
C30_Witness ==
    /\ RoutineStep /\ argv.option = "generate_includes" /\ exitCode = 0
    /\ pre.art = StaleArt
    /\ art.includes = [status |-> "ok", include |-> <<"m.json">>, sizes |-> 5]

\* C33: after any sequence of invocations from any initial State Record,
\* absent, empty, partial or complete, each of the keys LAYOUT_PATH,
\* LAYOUT_NAME and STYLE_PATH is on at most one line of the state file.
LinesOf(key) == {i \in 1..Len(stateFile.lines) : stateFile.lines[i][1] = key}

C33_NoDuplicateKeys == \A key \in Keys : Cardinality(LinesOf(key)) <= 1

\* C35: a Backup is created only when an existing Live Config is about to
\* be replaced by different content.  When reconciliation has written a
\* Backup, the Live Config existed at the start of the invocation and its
\* content now differs from what it was.
C35_BackupOnlyWhenNeeded ==
    (pc = "reconciled" /\ made > 0)
        => (pre.config # NoFile /\ config # pre.config)

\* C34: drift repair overwrites the live config only after a backup of its
\* content was written: whenever reconciliation replaced an existing live
\* config by different content, a backup holds the content it replaced.
C34_BackupBeforeOverwrite ==
    (pc = "reconciled" /\ pre.config # NoFile /\ config # pre.config)
        => \E b \in Backups(tree) : tree[b] = pre.config

\* C36: --config F changes the live config and no line of the State Record;
\* the next invocation that finds a live config differing from the recorded
\* layout (as F does) archives it as a backup and resets the live config to
\* the recorded layout.
Drifted ==
    /\ pre.config # NoFile
    /\ PrePath # None
    /\ path_exists(pre, PrePath)
    /\ pre.config # pre.tree[PrePath]
C36_ConfigFileIsDrift ==
    /\ (pc = "done" /\ argv.option = "--config")
           => /\ stateFile = Reconciled.state
              /\ path_exists(Reconciled, argv.arg)
                    => config = Reconciled.tree[argv.arg]
    /\ (pc = "reconciled" /\ Drifted)
           => /\ config = pre.tree[PrePath]
              /\ \E b \in Backups(tree) : tree[b] = pre.config

\* C37: when the layout given to --set is in the catalogue, the invocation
\* applies it: it becomes the live config and the recorded LAYOUT_PATH,
\* whatever form the command line has and whatever LAYOUT_PATH was recorded.
Applied(pairs, hit) ==
    hit # 0 => /\ switched = pairs[hit].layout
               /\ config = Reconciled.tree[pairs[hit].layout]
               /\ NowPath = pairs[hit].layout
AppliedAmong(pairs) == Applied(pairs, find_pair(pairs, argv.set))
C37_SetAppliesArgument ==
    (pc = "done" /\ argv.option = "--set")
        => AppliedAmong(list_layouts(Reconciled))

\* C32: in watch mode a poll that finds no bar process is followed by the
\* relaunch before anything else the watcher does; the loop is left only by
\* the signal handler, which has killed the bar and exits with status 0; an
\* error in a poll leaves the watcher in the loop.
C32_WatchLoop ==
    [][/\ (pc = "watching" /\ ~bar /\ log' # log /\ log'[2] # "error")
             => pc' = "missing"
       /\ pc = "missing"
             => \/ pc' = "missing"
                \/ pc' = "done"
                \/ pc' = "watching" /\ log' = <<"poll", "none", "restart">>
       /\ (pc \in Watching /\ pc' \notin Watching)
             => (pc' = "done" /\ exitCode' = 0 /\ ~bar')
      ]_vars
C32_Witness ==
    /\ pc = "watching"
    /\ log = <<"poll", "none", "restart">>
    /\ bar

\* C38: between the AI's reply and the user's confirmation with Apply the
\* settings store is what it was when the request was sent, and the changes
\* of the reply are only shown in the preview as proposed.
C38_StoreWaitsForApply ==
    gui.phase \in {"replied", "shown"} => gui.store = gui.before

\* C31: when both switches have ended, a State Record that lost a key, or
\* that pairs the LAYOUT_PATH of one switch with the STYLE_PATH, the style
\* import or the live config of the other, is found only if the two
\* invocations ran at the same time; such an interleaving exists.
AllDone == \A p \in Procs : procs.run[p].pc = "done"
LostKey == \E key \in Keys : get_state_value(Files, key) = None
PairedWith(layout) ==
    /\ NowPath = layout
    /\ NowStyle = resolve_style_path(layout)
    /\ styleCss = resolve_style_path(layout)
    /\ config = tree[layout]
Torn == LostKey \/ \A p \in Procs : ~PairedWith(procs.run[p].target)
C31_TornOnlyWhenConcurrent ==
    (AllDone /\ procs # NoProcs /\ Torn) => procs.overlapped
C31_Witness ==
    /\ AllDone
    /\ procs.overlapped
    /\ ~LostKey
    /\ \E p \in Procs :
          /\ NowPath = procs.run[p].target
          /\ config # tree[procs.run[p].target]

====
